---- MODULE Spec2Model ----
(***************************************************************************)
(* MediSense AI health symptom checker.                                    *)
(*                                                                         *)
(*   - the Workers backend ("Relay"): src/worker-backend.js, one request   *)
(*     handler `fetch` running search -> inference -> optional D1 logging; *)
(*   - the React chat client: src/src/App.tsx, the transcript state        *)
(*     machine (initial state, handleSubmit, handleKeyDown, New Chat).     *)
(*                                                                         *)
(* Texts are sequences of string tokens, so that "" is <<>>, trim() and    *)
(* template concatenation are computed.  An optional JavaScript value      *)
(* (a property that may be undefined) is a sequence of length 0 or 1.      *)
(***************************************************************************)
EXTENDS Integers, Sequences, FiniteSets, TLC

(* ---------------------------- bounds ----------------------------------- *)
MaxClock == 2        \* Date.now() ranges over 0..MaxClock
MaxLen == 3          \* Submit is not explored once the transcript could exceed this
MaxPending == 1      \* background log tasks the Relay model keeps pending
MaxInput == 1        \* characters the model types into the textarea
MaxInflight == 2     \* outstanding POSTs the Client model can represent

(***************************************************************************)
(*                      Backend Relay (worker-backend.js)                  *)
(***************************************************************************)

None == <<>>
Some(v) == <<v>>

\* POST bodies: text that is not JSON, JSON null, or a JSON object whose
\* `message` property is missing, "", or a non-empty text.
Queries == { <<"fever">>, <<"cough">> }
RequestBodies ==
    { [t |-> "garbage", message |-> None], [t |-> "null", message |-> None],
      [t |-> "object", message |-> None], [t |-> "object", message |-> Some(<<>>)] }
    \cup { [t |-> "object", message |-> Some(q)] : q \in Queries }
PostBody(q) == [t |-> "object", message |-> Some(q)]
Requests == { [method |-> m, body |-> [t |-> "garbage", message |-> None]] : m \in {"GET", "OPTIONS", "PUT"} }
            \cup { [method |-> "POST", body |-> b] : b \in RequestBodies }

\* env bindings: SERPER_API_KEY set or not, D1 binding DB present or not.
Envs == [SERPER_API_KEY : BOOLEAN, DB : BOOLEAN]

\* What the Search Provider does with the outbound call.
Organic1 == << [title |-> "T1", snippet |-> "S1"] >>
Organic2 == << [title |-> "T1", snippet |-> "S1"], [title |-> "T2", snippet |-> "S2"] >>
SearchOutcomes ==
    { [t |-> "throws", organic |-> None], [t |-> "garbage", organic |-> None],
      [t |-> "null", organic |-> None], [t |-> "object", organic |-> None],
      [t |-> "object", organic |-> Some(<<>>)],
      [t |-> "object", organic |-> Some(Organic1)],
      [t |-> "object", organic |-> Some(Organic2)] }

\* What env.AI.run does: throws, resolves to null, or resolves to an object
\* whose `response` property is missing, "", or a text.
AiOutcomes ==
    { [t |-> "throws", response |-> None], [t |-> "null", response |-> None],
      [t |-> "object", response |-> None], [t |-> "object", response |-> Some(<<>>)],
      [t |-> "object", response |-> Some(<<"advice">>)] }

\* What the D1 binding does with prepare(..).bind(..).run().
DbOutcomes == {"ok", "prepareThrows", "bindThrows", "runThrows", "runRejects"}

NoResults == <<"No web results found.">>

RECURSIVE ContextLines(_, _)
\* searchData.organic.map((i, idx) => `${idx + 1}. ${i.title}: ${i.snippet}`).join('\n')
\* for the items from position idx (1-based) on.
ContextLines(organic, idx) ==
    IF idx > Len(organic) THEN <<>>
    ELSE <<ToString(idx), ". ", organic[idx].title, ": ", organic[idx].snippet>>
         \o (IF idx < Len(organic) THEN <<"\n">> ELSE <<>>)
         \o ContextLines(organic, idx + 1)

\* searchData.organic?.length ? ... : "No web results found."
FormatContext(organic) ==
    IF organic # None /\ Len(organic[1]) > 0
    THEN ContextLines(organic[1], 1)
    ELSE NoResults

\* `Context:\n${context}\n\nQuery:\n${userQuery}`
UserContent(context, userQuery) ==
    <<"Context:\n">> \o context \o <<"\n\nQuery:\n">> \o userQuery

OkStatus == 200
ErrorStatus == 500
MethodStatus == 405

TextResponse(status, text) ==
    [status |-> status, k |-> "text", reply |-> None, error |-> None, text |-> text]
\* new Response(JSON.stringify({ error: error.message }), { status: 500, ... })
ErrorResponse(msg) ==
    [status |-> ErrorStatus, k |-> "json", reply |-> None, error |-> Some(msg), text |-> ""]
\* new Response(JSON.stringify({ reply: aiResponse.response }), ...): status 200;
\* JSON.stringify drops a property whose value is undefined.
ReplyResponse(response) ==
    [status |-> OkStatus, k |-> "json", reply |-> response, error |-> None, text |-> ""]

Result(resp, calls, context, userContent, task) ==
    [resp |-> resp, calls |-> calls, context |-> context,
     userContent |-> userContent, task |-> task]
Failure(msg, calls, context, userContent) ==
    Result(ErrorResponse(msg), calls, context, userContent, None)

\* Phase 3 and the return statement, reached once env.AI.run has resolved.
LogAndReturn(env, ao, dbo, calls, context, userContent) ==
    IF ~env.DB
    THEN IF ao.t = "null"
         THEN Failure("TypeError", calls, context, userContent)
         ELSE Result(ReplyResponse(ao.response), calls, context, userContent, None)
    ELSE LET c1 == Append(calls, "DB.prepare")
             c2 == Append(c1, "DB.bind")
             c3 == Append(c2, "DB.run")
         IN  IF dbo = "prepareThrows" THEN Failure("D1 prepare", c1, context, userContent)
             ELSE IF ao.t = "null" THEN Failure("TypeError", c1, context, userContent)
             ELSE IF dbo = "bindThrows" THEN Failure("D1 bind", c2, context, userContent)
             ELSE IF dbo = "runThrows" THEN Failure("D1 run", c3, context, userContent)
             ELSE Result(ReplyResponse(ao.response), c3, context, userContent,
                         Some(IF dbo = "runRejects" THEN "rejects" ELSE "resolves"))

\* Phase 2, reached once the context is built.
Analyse(env, userQuery, context, ao, dbo, calls) ==
    LET c == Append(calls, "AI.run")
        uc == Some(UserContent(context, userQuery))
    IN  IF ao.t = "throws"
        THEN Failure("AI failed", c, Some(context), uc)
        ELSE LogAndReturn(env, ao, dbo, c, Some(context), uc)

\* Answer with the credential looked at only after the search call.
AnswerLateCredentialCheck(body, env, so, ao, dbo) ==
    IF body.t = "garbage" THEN Failure("SyntaxError", <<>>, None, None)
    ELSE IF body.t = "null" THEN Failure("TypeError", <<>>, None, None)
    ELSE IF body.message = None \/ body.message[1] = <<>>
         THEN Failure("Message is required.", <<>>, None, None)
    ELSE IF so.t = "throws" THEN Failure("fetch failed", <<"search">>, None, None)
    ELSE IF ~env.SERPER_API_KEY
         THEN Failure("SERPER_API_KEY missing.", <<"search">>, None, None)
    ELSE IF so.t = "garbage" THEN Failure("SyntaxError", <<"search">>, None, None)
    ELSE IF so.t = "null" THEN Failure("TypeError", <<"search">>, None, None)
    ELSE Analyse(env, body.message[1], FormatContext(so.organic), ao, dbo, <<"search">>)

\* The body of the try block for a POST.
Answer(body, env, so, ao, dbo) ==
    IF body.t = "garbage" THEN Failure("SyntaxError", <<>>, None, None)
    ELSE IF body.t = "null" THEN Failure("TypeError", <<>>, None, None)
    ELSE IF body.message = None \/ body.message[1] = <<>>
         THEN Failure("Message is required.", <<>>, None, None)
    ELSE IF ~env.SERPER_API_KEY
         THEN Failure("SERPER_API_KEY missing.", <<>>, None, None)
    ELSE IF so.t = "throws" THEN Failure("fetch failed", <<"search">>, None, None)
    ELSE IF so.t = "garbage" THEN Failure("SyntaxError", <<"search">>, None, None)
    ELSE IF so.t = "null" THEN Failure("TypeError", <<"search">>, None, None)
    ELSE Analyse(env, body.message[1], FormatContext(so.organic), ao, dbo, <<"search">>)

\* export default { async fetch(request, env, ctx) }
fetch(request, env, so, ao, dbo) ==
    IF request.method = "GET"
    THEN Result(TextResponse(OkStatus, "OK"), <<>>, None, None, None)
    ELSE IF request.method = "OPTIONS"
    THEN Result(TextResponse(OkStatus, ""), <<>>, None, None, None)
    ELSE IF request.method # "POST"
    THEN Result(TextResponse(MethodStatus, "Use POST"), <<>>, None, None, None)
    ELSE Answer(request.body, env, so, ao, dbo)

(***************************************************************************)
(*                         Chat Client (App.tsx)                           *)
(***************************************************************************)

DISCLAIMER_MESSAGE == "> Disclaimer: I am an AI assistant, not a medical professional."
ApologyText ==
    <<"I'm having trouble connecting to the server right now. Please try again in a moment.">>

\* A Message; isError is TRUE or absent (FALSE stands for the absent property,
\* which JSON.stringify drops and `msg.isError &&` reads as falsy).
WelcomeMessage ==
    [id |-> "welcome", role |-> "assistant",
     content |-> <<"# Welcome to MediSense AI", DISCLAIMER_MESSAGE,
                   "To get started, please describe your symptoms in detail.">>,
     isError |-> FALSE]
NewSessionMessage(now) ==
    [id |-> ToString(now), role |-> "assistant",
     content |-> <<"# New Session", DISCLAIMER_MESSAGE>>, isError |-> FALSE]
UserMessage(now, userText) ==
    [id |-> ToString(now), role |-> "user", content |-> userText, isError |-> FALSE]
ReplyMessage(now, reply) ==
    [id |-> ToString(now), role |-> "assistant", content |-> reply, isError |-> FALSE]
ErrorMessage(now) ==
    [id |-> ToString(now), role |-> "assistant", content |-> ApologyText, isError |-> TRUE]

\* JSON values as far as the client tells them apart: an array (with its
\* elements), or an object / null, which have no elements.
JsonArray(a) == [k |-> "array", a |-> a]
JsonObject == [k |-> "object", a |-> <<>>]
JsonNull == [k |-> "null", a |-> <<>>]

\* localStorage.getItem(STORAGE_KEY): null when absent, else the stored text,
\* which is "", text that is not JSON, or the JSON text of a value.
Absent == [t |-> "absent", v |-> JsonNull]
EmptyText == [t |-> "empty", v |-> JsonNull]
GarbageText == [t |-> "garbage", v |-> JsonNull]
\* JSON.stringify(value)
JSONstringify(value) == [t |-> "json", v |-> value]

SavedChat ==
    <<WelcomeMessage, UserMessage(0, <<"fever">>), ReplyMessage(1, <<"advice">>)>>
NotAMessage == [id |-> "x", role |-> "system", content |-> <<"hi">>, isError |-> FALSE]
PersistedValues ==
    { Absent, EmptyText, GarbageText,
      JSONstringify(JsonObject), JSONstringify(JsonNull),
      JSONstringify(JsonArray(<<NotAMessage>>)),
      JSONstringify(JsonArray(<<WelcomeMessage>>)),
      JSONstringify(JsonArray(SavedChat)) }

\* useState initialiser: the parsed value when `saved` is truthy and parses,
\* the welcome transcript otherwise.
InitialMessages(saved) ==
    IF saved.t \in {"absent", "empty"} THEN JsonArray(<<WelcomeMessage>>)
    ELSE IF saved.t = "json" THEN saved.v
    ELSE JsonArray(<<WelcomeMessage>>)

WhiteSpace == {" ", "\n"}
RECURSIVE TrimStart(_)
TrimStart(s) == IF s # <<>> /\ Head(s) \in WhiteSpace THEN TrimStart(Tail(s)) ELSE s
RECURSIVE TrimEnd(_)
TrimEnd(s) ==
    IF s # <<>> /\ s[Len(s)] \in WhiteSpace THEN TrimEnd(SubSeq(s, 1, Len(s) - 1)) ELSE s
\* String.prototype.trim
Trim(s) == TrimEnd(TrimStart(s))

\* Texts set into the textarea at once (paste), and keys typed into it.
Inputs == { <<>>, <<" ", "cough", " ">> }
Keys == {"Enter", "flu"}
\* Every text the textarea can hold, and every text handleSubmit can send.
Tokens == {" ", "cough", "flu", "\n"}
InputTexts == Inputs \cup UNION { [1..n -> Tokens] : n \in 0..MaxInput }
UserTexts == { Trim(x) : x \in InputTexts } \ { <<>> }

\* How the POST of handleSubmit settles: fetch rejects (network error, or the
\* 60 s AbortSignal fires), or it resolves with a response whose body is not
\* JSON, or with a response produced by the Relay for that POST.
Rejections == { [t |-> "network", resp |-> TextResponse(0, "")],
                [t |-> "timeout", resp |-> TextResponse(0, "")] }
\* The responses the Relay's handler gives to the POST of each text, over
\* every configuration and every behaviour of its providers.
RelayTable ==
    { [message |-> q,
       resp |-> fetch([method |-> "POST", body |-> PostBody(q)], e, so, ao, dbo).resp] :
        q \in UserTexts, e \in Envs, so \in SearchOutcomes, ao \in AiOutcomes,
        dbo \in DbOutcomes }
RelayResponses(userText) ==
    { x.resp : x \in { y \in RelayTable : y.message = userText } }
FetchOutcomes(userText) ==
    Rejections
    \cup { [t |-> "response", resp |-> TextResponse(OkStatus, "<html>")] }
    \cup { [t |-> "response", resp |-> r] : r \in RelayResponses(userText) }

\* response.ok
Ok(resp) == resp.status >= 200 /\ resp.status <= 299

\* The try/catch of handleSubmit after the fetch has settled with outcome o:
\* the transcript that the queued setMessages updater yields from prev.
Settle(prev, o, now) ==
    IF o.t # "response" THEN Append(prev, ErrorMessage(now))
    ELSE IF ~Ok(o.resp) THEN Append(prev, ErrorMessage(now))
    ELSE IF o.resp.k # "json" THEN Append(prev, ErrorMessage(now))
    ELSE IF o.resp.reply # None /\ o.resp.reply[1] # <<>>
         THEN Append(prev, ReplyMessage(now, o.resp.reply[1]))
    ELSE prev

(***************************************************************************)
(*                              State                                      *)
(***************************************************************************)
VARIABLES
    phase,      \* "unmounted", "mounted", or "crashed" (render threw)
    storage,    \* localStorage item under STORAGE_KEY
    messages,   \* useState messages (a JSON value: whatever the initialiser returned)
    input,      \* useState input
    isLoading,  \* useState isLoading
    inflight,   \* outstanding POSTs to the Relay, each with its userText
    clock,      \* Date.now()
    probe,      \* startup health check GET: "none", "pending", "done"
    relay,      \* the last request the Relay handled, with its result (or None)
    tasks,      \* promises handed to ctx.waitUntil that have not settled
    d1Log       \* what the last settled log task did: "none", "stored", "errorLogged"

clientVars == <<phase, storage, messages, input, isLoading, inflight, clock, probe>>
relayVars == <<relay, tasks, d1Log>>
vars == <<phase, storage, messages, input, isLoading, inflight, clock, probe,
          relay, tasks, d1Log>>

ClientInit ==
    /\ phase = "unmounted"
    /\ storage \in PersistedValues
    /\ messages = JsonNull
    /\ input = <<>>
    /\ isLoading = FALSE
    /\ inflight = <<>>
    /\ clock \in 0..MaxClock
    /\ probe = "none"

RelayInit ==
    /\ relay = None
    /\ tasks = <<>>
    /\ d1Log = "none"

(* ------------------------------ Client --------------------------------- *)

\* First render of App: the useState initialiser, then messages.map in the
\* render (a TypeError unless messages is an array), then the mount effects:
\* persist the transcript and start the health check.
Initialize ==
    /\ phase = "unmounted"
    /\ messages' = InitialMessages(storage)
    /\ IF messages'.k = "array"
       THEN /\ phase' = "mounted"
            /\ storage' = JSONstringify(messages')
            /\ probe' = "pending"
       ELSE /\ phase' = "crashed"
            /\ UNCHANGED <<storage, probe>>
    /\ UNCHANGED <<input, isLoading, inflight, clock, relayVars>>

\* The health check settles; .catch(() => {}) swallows a failure.
ProbeSettle ==
    /\ probe = "pending"
    /\ probe' = "done"
    /\ UNCHANGED <<phase, storage, messages, input, isLoading, inflight, clock, relayVars>>

\* Textarea onChange
SetInput(v) ==
    /\ phase = "mounted"
    /\ input' = v
    /\ UNCHANGED <<phase, storage, messages, isLoading, inflight, clock, probe, relayVars>>

\* handleSubmit without the isLoading test.
handleSubmitWhileLoading ==
    IF Trim(input) = <<>>
    THEN UNCHANGED vars
    ELSE /\ input' = <<>>
         /\ messages' = JsonArray(Append(messages.a, UserMessage(clock, Trim(input))))
         /\ isLoading' = TRUE
         /\ inflight' = Append(inflight, Trim(input))
         /\ storage' = JSONstringify(messages')
         /\ UNCHANGED <<phase, clock, probe, relayVars>>

\* handleSubmit up to its first await.  React commits the updates of a
\* discrete event before the next event is dispatched, so the isLoading the
\* handler's closure reads is the committed one.
handleSubmit ==
    IF Trim(input) = <<>> \/ isLoading
    THEN UNCHANGED vars
    ELSE /\ input' = <<>>
         /\ messages' = JsonArray(Append(messages.a, UserMessage(clock, Trim(input))))
         /\ isLoading' = TRUE
         /\ inflight' = Append(inflight, Trim(input))
         /\ storage' = JSONstringify(messages')
         /\ UNCHANGED <<phase, clock, probe, relayVars>>

CanExplore == Len(messages.a) < MaxLen /\ Len(inflight) < MaxInflight

\* <form onSubmit={handleSubmit}>
FormSubmit ==
    /\ phase = "mounted"
    /\ CanExplore
    /\ handleSubmit

\* handleKeyDown: Enter without Shift submits; any other key is left to the
\* textarea, whose onChange stores the text with the typed character added.
KeyDown(key, shiftKey) ==
    /\ phase = "mounted"
    /\ IF key = "Enter" /\ ~shiftKey
       THEN CanExplore /\ handleSubmit
       ELSE /\ Len(input) < MaxInput
            /\ input' = Append(input, IF key = "Enter" THEN "\n" ELSE key)
            /\ UNCHANGED <<phase, storage, messages, isLoading, inflight, clock, probe,
                           relayVars>>

RemoveAt(s, i) == SubSeq(s, 1, i - 1) \o SubSeq(s, i + 1, Len(s))

\* ResolveWith with setIsLoading(false) at the end of the try block instead
\* of in finally.
ResolveWithoutFinally(i, o) ==
    /\ messages' = JsonArray(Settle(messages.a, o, clock))
    /\ isLoading' = IF o.t = "response" /\ Ok(o.resp) /\ o.resp.k = "json"
                    THEN FALSE ELSE isLoading
    /\ inflight' = RemoveAt(inflight, i)
    /\ storage' = JSONstringify(messages')
    /\ UNCHANGED <<phase, input, clock, probe, relayVars>>

\* The i-th outstanding POST settles with outcome o and handleSubmit runs to
\* its end: try / catch / finally.
ResolveWith(i, o) ==
    /\ messages' = JsonArray(Settle(messages.a, o, clock))
    /\ isLoading' = FALSE
    /\ inflight' = RemoveAt(inflight, i)
    /\ storage' = JSONstringify(messages')
    /\ UNCHANGED <<phase, input, clock, probe, relayVars>>

Resolve(i) ==
    /\ phase = "mounted"
    /\ i \in 1..Len(inflight)
    /\ \E o \in FetchOutcomes(inflight[i]) : ResolveWith(i, o)

\* New Chat that also abandons the request in flight.
ResetCancels ==
    /\ phase = "mounted"
    /\ messages' = JsonArray(<<NewSessionMessage(clock)>>)
    /\ storage' = JSONstringify(messages')
    /\ isLoading' = FALSE
    /\ inflight' = <<>>
    /\ UNCHANGED <<phase, input, clock, probe, relayVars>>

\* New Chat onClick
Reset ==
    /\ phase = "mounted"
    /\ messages' = JsonArray(<<NewSessionMessage(clock)>>)
    /\ storage' = JSONstringify(messages')
    /\ UNCHANGED <<phase, input, isLoading, inflight, clock, probe, relayVars>>

\* Time passes.
Tick ==
    /\ clock < MaxClock
    /\ clock' = clock + 1
    /\ UNCHANGED <<phase, storage, messages, input, isLoading, inflight, probe, relayVars>>

(* ------------------------------- Relay --------------------------------- *)

\* The Relay handles one request; a log task, if any, is left with ctx.waitUntil.
HandleRequest(request, env, so, ao, dbo) ==
    /\ relay = None
    /\ Len(tasks) < MaxPending
    /\ LET out == fetch(request, env, so, ao, dbo)
       IN  /\ relay' = Some([request |-> request, env |-> env, so |-> so, ao |-> ao,
                             dbo |-> dbo, out |-> out])
           /\ tasks' = tasks \o out.task
    /\ UNCHANGED <<d1Log, clientVars>>

\* The response has gone out; the Relay keeps nothing of the request.
Deliver ==
    /\ relay # None
    /\ relay' = None
    /\ UNCHANGED <<tasks, d1Log, clientVars>>

\* A log task settles: the row is stored, or .catch logs "D1 Log Error:".
TaskSettle ==
    /\ tasks # <<>>
    /\ d1Log' = IF Head(tasks) = "resolves" THEN "stored" ELSE "errorLogged"
    /\ tasks' = Tail(tasks)
    /\ UNCHANGED <<relay, clientVars>>

(* --------------------------- Specifications ---------------------------- *)

Init == ClientInit /\ RelayInit

Next ==
    \/ Initialize
    \/ ProbeSettle
    \/ \E v \in Inputs : SetInput(v)
    \/ FormSubmit
    \/ \E key \in Keys, shiftKey \in BOOLEAN : KeyDown(key, shiftKey)
    \/ \E i \in 1..MaxInflight : Resolve(i)
    \/ Reset
    \/ Tick

\* The client, with the Relay's handler deciding the responses it can get.
Spec == Init /\ [][Next]_vars

\* Every outstanding fetch settles: AbortSignal.timeout(60000) rejects it at the latest.
LiveSpec == Spec /\ WF_vars(\E i \in 1..MaxInflight : Resolve(i))

RelayStart ==
    /\ phase = "unmounted" /\ storage = Absent /\ messages = JsonNull /\ input = <<>>
    /\ isLoading = FALSE /\ inflight = <<>> /\ clock = 0 /\ probe = "none"
    /\ RelayInit

RelayNext ==
    \/ \E request \in Requests, env \in Envs, so \in SearchOutcomes,
          ao \in AiOutcomes, dbo \in DbOutcomes : HandleRequest(request, env, so, ao, dbo)
    \/ Deliver
    \/ TaskSettle

\* The Relay alone, over every request, configuration and provider behaviour.
RelaySpec == RelayStart /\ [][RelayNext]_vars

(***************************************************************************)
(*                             Properties                                  *)
(***************************************************************************)

TypeOK ==
    /\ phase \in {"unmounted", "mounted", "crashed"}
    /\ isLoading \in BOOLEAN
    /\ clock \in 0..MaxClock
    /\ input \in InputTexts
    /\ \A i \in 1..Len(inflight) : inflight[i] \in UserTexts
    /\ Len(tasks) <= MaxPending

Range(s) == { s[i] : i \in 1..Len(s) }
IsPost(r) == r.request.method = "POST"
HasQuery(r) ==
    /\ r.request.body.t = "object"
    /\ r.request.body.message # None
    /\ r.request.body.message[1] # <<>>
Success(resp) == Ok(resp) /\ resp.k = "json" /\ resp.error = None
FailureResponse(resp) ==
    ~Ok(resp) /\ resp.k = "json" /\ resp.error # None /\ resp.reply = None
NoReply(ao) == ao.response = None \/ ao.response[1] = <<>>

(* ------------------------------- C1 ------------------------------------ *)
SearchDegraded(so) ==
    \/ so.t \in {"throws", "garbage"}
    \/ so.t = "object" /\ (so.organic = None \/ so.organic[1] = <<>>)
InferenceAndLogWork(r) ==
    /\ r.ao.t = "object" /\ ~NoReply(r.ao)
    /\ r.env.DB => r.dbo \in {"ok", "runRejects"}

\* C1: for a non-empty query with the search credential configured, a Search
\* Provider that throws, answers with a body that is not JSON, or has no
\* organic results never fails the request: the context is the fallback
\* "No web results found.", the inference phase is invoked, and (the rest of
\* the pipeline working) the Relay returns the success response {reply}.
C1_SearchFailureNeverFails ==
    relay # None =>
        LET r == relay[1] IN
        (IsPost(r) /\ HasQuery(r) /\ r.env.SERPER_API_KEY /\ SearchDegraded(r.so)
         /\ InferenceAndLogWork(r))
        => /\ r.out.context = Some(NoResults)
           /\ "AI.run" \in Range(r.out.calls)
           /\ r.out.resp = ReplyResponse(r.ao.response)

(* ------------------------------- C2 ------------------------------------ *)
\* C2: whenever the Inference Provider fails, by throwing or by a response
\* whose text completion is missing or empty, the Relay returns the failure
\* response (non-success status, body {error}); no success-status response
\* to a POST has an absent or empty reply.
C2_InferenceFailureFails ==
    relay # None =>
        LET r == relay[1] IN
        /\ ("AI.run" \in Range(r.out.calls) /\ (r.ao.t # "object" \/ NoReply(r.ao)))
           => FailureResponse(r.out.resp)
        /\ (IsPost(r) /\ Ok(r.out.resp))
           => (r.out.resp.reply # None /\ r.out.resp.reply[1] # <<>>)

(* ------------------------------- C3 ------------------------------------ *)
\* C3: a POST whose message is missing or empty, and any POST made while the
\* search credential is absent, gets the failure response {error} with a
\* non-success status, and the request makes no call to the Search Provider,
\* the Inference Provider or the Log Store.
C3_RejectedBeforeAnyCall ==
    relay # None =>
        LET r == relay[1] IN
        (IsPost(r) /\ (~HasQuery(r) \/ ~r.env.SERPER_API_KEY))
        => /\ FailureResponse(r.out.resp)
           /\ r.out.calls = <<>>
           /\ r.out.task = None

C3_Witness ==
    /\ relay # None
    /\ IsPost(relay[1]) /\ HasQuery(relay[1])
    /\ ~relay[1].env.SERPER_API_KEY /\ relay[1].env.DB
    /\ relay[1].out.resp = ErrorResponse("SERPER_API_KEY missing.")

(* ------------------------------- C4 ------------------------------------ *)
\* C4: with a Log Store configured, the response to a POST is the one the
\* same request, search outcome and inference outcome get when the insert
\* succeeds, whichever step of the insert fails.
C4_LogOutcomeInvisible ==
    relay # None =>
        LET r == relay[1] IN
        (IsPost(r) /\ r.env.DB)
        => r.out.resp = fetch(r.request, r.env, r.so, r.ao, "ok").resp

(* ------------------------------- C5 ------------------------------------ *)
AppendsUserMessage ==
    /\ Len(messages'.a) = Len(messages.a) + 1
    /\ messages'.a[Len(messages'.a)].role = "user"

\* C5: at most one POST to the Relay is outstanding at any instant, and no
\* step taken while a Submit is pending sends a request or appends a user
\* Message.
C5_OneRequestInFlight ==
    /\ [](Len(inflight) <= 1)
    /\ [][(phase = "mounted" /\ isLoading)
          => (Len(inflight') <= Len(inflight) /\ ~AppendsUserMessage)]_vars

C5_Witness ==
    /\ phase = "mounted" /\ isLoading /\ Len(inflight) = 1
    /\ Trim(input) # <<>>
    /\ probe = "pending"
    /\ Len(messages.a) = 1 /\ messages.a[1].id # "welcome"

(* ------------------------------- C6 ------------------------------------ *)
\* C6: loading is true exactly while a request is outstanding (so every
\* accepted Submit sets it), and it always returns to false, whatever the
\* outcome of the Relay call.
C6_LoadingClears ==
    /\ [](isLoading <=> inflight # <<>>)
    /\ [][Len(inflight') > Len(inflight) => isLoading']_vars
    /\ isLoading ~> ~isLoading

C6_Witness ==
    /\ phase = "mounted" /\ ~isLoading /\ inflight = <<>>
    /\ Len(messages.a) >= 2
    /\ messages.a[Len(messages.a)].isError
    /\ messages.a[Len(messages.a) - 1].role = "user"

(* ------------------------------- C7 ------------------------------------ *)
\* The outcomes C7 speaks of: a rejected fetch, a non-success status, or a
\* success-status response carrying a reply text.
C7Outcomes(userText) ==
    { o \in FetchOutcomes(userText) :
        \/ o.t # "response"
        \/ ~Ok(o.resp)
        \/ o.resp.k = "json" /\ o.resp.reply # None }
C7Expected(o, now) ==
    IF o.t = "response" /\ Ok(o.resp)
    THEN ReplyMessage(now, o.resp.reply[1])
    ELSE ErrorMessage(now)

\* C7: a Submit that resolves appends exactly one assistant Message: for a
\* success-status response, the reply text (the empty string included) with
\* no error flag; for a network error, timeout or non-success status, the
\* apology with the error flag.
C7_OneAssistantMessagePerSubmit ==
    [][\A i \in 1..MaxInflight :
        (phase = "mounted" /\ i <= Len(inflight))
        => \A o \in C7Outcomes(inflight[i]) :
             ResolveWith(i, o) => messages'.a = Append(messages.a, C7Expected(o, clock))]_vars

(* ------------------------------- C8 ------------------------------------ *)
IsMessage(m) == m.role \in {"user", "assistant"}
IsTranscript(value) ==
    value.k = "array" /\ \A i \in 1..Len(value.a) : IsMessage(value.a[i])
WellFormed(saved) == saved.t = "json" /\ IsTranscript(saved.v)

\* C8: for every persisted value, the initial Transcript is a sequence of
\* Messages: the persisted sequence when the value is a well-formed Message
\* array, and otherwise exactly the welcome Message.
C8_InitialTranscript ==
    [][(phase = "unmounted" /\ phase' # "unmounted")
       => /\ IsTranscript(messages')
          /\ WellFormed(storage) => messages' = storage.v
          /\ ~WellFormed(storage) => messages' = JsonArray(<<WelcomeMessage>>)]_vars

(* ------------------------------- C9 ------------------------------------ *)
\* C9: no two Messages of a reachable Transcript have the same id.
C9_UniqueIds ==
    phase = "mounted" =>
        \A i, j \in 1..Len(messages.a) :
            i # j => messages.a[i].id # messages.a[j].id

(* ------------------------------- C10 ----------------------------------- *)
\* C10: Reset is enabled while a Submit is in flight; it leaves loading and
\* the request alone and makes the Transcript the single greeting; when the
\* request resolves, its assistant Message, if any, is appended to the
\* Transcript of that moment.
C10_ResetDuringSubmit ==
    /\ []((phase = "mounted" /\ isLoading) => ENABLED Reset)
    /\ [][Reset => /\ isLoading' = isLoading
                   /\ inflight' = inflight
                   /\ messages' = JsonArray(<<NewSessionMessage(clock)>>)]_vars
    /\ [][(isLoading /\ ~isLoading')
          => \/ messages'.a = messages.a
             \/ /\ Len(messages'.a) = Len(messages.a) + 1
                /\ SubSeq(messages'.a, 1, Len(messages.a)) = messages.a
                /\ messages'.a[Len(messages'.a)].role = "assistant"]_vars

\* [greeting, assistant reply] with no user Message between them.
C10_Witness ==
    /\ phase = "mounted" /\ ~isLoading
    /\ \E c1, c2 \in 0..MaxClock :
         messages.a = <<NewSessionMessage(c1), ReplyMessage(c2, <<"advice">>)>>

====
